---- MODULE Spec2Model ----
(***************************************************************************)
(* Scoreboard server (Express + Firebase RTDB): GET /scores and            *)
(* POST /scores/submit, modelled as request handlers that suspend at each  *)
(* await of the backing store.                                             *)
(***************************************************************************)
EXTENDS Integers, Sequences, FiniteSets, TLC

(***************************************************************************)
(* Bounds of the model.                                                    *)
(***************************************************************************)
\* request slots: how many requests can be in flight at once
NumProcs == 2
\* total number of submit requests received in a behaviour
MaxSubmits == 2
\* total number of list requests received in a behaviour
MaxLists == 1
\* finite course times submitted are 0..MaxTime
MaxTime == 2
\* Date.now() ranges over 0..MaxClock
MaxClock == 1
\* a request body supplies at most MaxFields of the five course fields
MaxFields == 1
\* names of the key-derivation specification have at most MaxLen characters
MaxLen == 2

(***************************************************************************)
(* JavaScript values.  A string is a sequence of one-character strings.    *)
(***************************************************************************)
Undefined == [t |-> "undefined"]
Null == [t |-> "null"]
NaN == [t |-> "NaN"]
Infinity == [t |-> "Infinity"]
NegInfinity == [t |-> "-Infinity"]
Num(n) == [t |-> "number", n |-> n]
Str(s) == [t |-> "string", s |-> s]

UpperCase == <<"A","B","C","D","E","F","G","H","I","J","K","L","M",
               "N","O","P","Q","R","S","T","U","V","W","X","Y","Z">>
LowerCase == <<"a","b","c","d","e","f","g","h","i","j","k","l","m",
               "n","o","p","q","r","s","t","u","v","w","x","y","z">>
Digits == <<"0","1","2","3","4","5","6","7","8","9">>

Range(s) == {s[i] : i \in DOMAIN s}
IsSpace(ch) == ch \in {" ", "\t", "\n"}

\* String.prototype.toLowerCase, one character
LowerChar(ch) ==
  IF \E i \in DOMAIN UpperCase : UpperCase[i] = ch
  THEN LowerCase[CHOOSE i \in DOMAIN UpperCase : UpperCase[i] = ch]
  ELSE ch

toLowerCase(s) == [i \in DOMAIN s |-> LowerChar(s[i])]

RECURSIVE TrimStart(_)
TrimStart(s) ==
  IF s # <<>> /\ IsSpace(Head(s)) THEN TrimStart(Tail(s)) ELSE s

RECURSIVE TrimEnd(_)
TrimEnd(s) ==
  IF s # <<>> /\ IsSpace(s[Len(s)]) THEN TrimEnd(SubSeq(s, 1, Len(s) - 1)) ELSE s

\* String.prototype.trim
trim(s) == TrimEnd(TrimStart(s))

\* String.prototype.slice(0, n)
slice(s, n) == SubSeq(s, 1, IF Len(s) < n THEN Len(s) ELSE n)

\* the character class [a-z0-9] of the key regular expression
IsKeyChar(ch) == ch \in Range(LowerCase) \cup Range(Digits)

RECURSIVE DropRun(_)
DropRun(s) ==
  IF s # <<>> /\ ~IsKeyChar(Head(s)) THEN DropRun(Tail(s)) ELSE s

\* a replace that puts a space, not a hyphen, for every run
RECURSIVE ReplaceRunsBySpace(_)
ReplaceRunsBySpace(s) ==
  IF s = <<>> THEN <<>>
  ELSE IF IsKeyChar(Head(s)) THEN <<Head(s)>> \o ReplaceRunsBySpace(Tail(s))
  ELSE <<" ">> \o ReplaceRunsBySpace(DropRun(s))

\* s.replace(/[^a-z0-9]+/g, '-'): every maximal run outside a-z0-9 becomes one '-'
RECURSIVE ReplaceRuns(_)
ReplaceRuns(s) ==
  IF s = <<>> THEN <<>>
  ELSE IF IsKeyChar(Head(s)) THEN <<Head(s)>> \o ReplaceRuns(Tail(s))
  ELSE <<"-">> \o ReplaceRuns(DropRun(s))

RECURSIVE DigitsOf(_)
DigitsOf(n) ==
  IF n < 10 THEN <<Digits[n + 1]>> ELSE DigitsOf(n \div 10) \o <<Digits[(n % 10) + 1]>>

\* String(v), for the values a JSON body can carry as a name
String(v) ==
  CASE v.t = "string" -> v.s
    [] v.t = "number" -> IF v.n < 0 THEN <<"-">> \o DigitsOf(-v.n) ELSE DigitsOf(v.n)
    [] OTHER -> <<"?">>

RECURSIVE DigitsValue(_)
DigitsValue(s) ==
  IF s = <<>> THEN 0
  ELSE 10 * DigitsValue(SubSeq(s, 1, Len(s) - 1))
       + ((CHOOSE i \in DOMAIN Digits : Digits[i] = s[Len(s)]) - 1)

\* Number(v): a string converts through its trimmed text ('' is 0, decimal
\* digits are their value, other text of the model's alphabet is NaN)
Number(v) ==
  CASE v.t = "number" -> v
    [] v.t = "string" ->
         LET s == trim(v.s)
         IN  IF \A i \in DOMAIN s : s[i] \in Range(Digits)
             THEN Num(DigitsValue(s)) ELSE NaN
    [] v.t = "null" -> Num(0)
    [] v.t = "undefined" -> NaN
    [] OTHER -> v

\* Number.isFinite
isFinite(v) == v.t = "number"

\* a Math.min that returns the greater of the two
MathMinGreater(a, b) == IF a.n <= b.n THEN b ELSE a

\* Math.min on finite numbers
MathMin(a, b) == IF a.n <= b.n THEN a ELSE b

\* v != null
NotNullish(v) == v.t \notin {"undefined", "null"}

\* ToBoolean
Truthy(v) ==
  CASE v.t = "string" -> v.s # <<>>
    [] v.t = "number" -> v.n # 0
    [] v.t \in {"Infinity", "-Infinity"} -> TRUE
    [] OTHER -> FALSE

\* obj[f] of a JavaScript object (a function from its own property names)
Get(obj, f) == IF f \in DOMAIN obj THEN obj[f] ELSE Undefined

Courses == {"c1", "c2", "c3", "c4", "c5"}


Mobile == Str(<<"m","o","b","i","l","e">>)
Desktop == Str(<<"d","e","s","k","t","o","p">>)
EmptyObject == [f \in {} |-> Undefined]

\* the cap of name.slice(0, 40)
NameCap == 40

(***************************************************************************)
(* POST /scores/submit: the pure parts of the handler.                     *)
(***************************************************************************)
\* req.get('x-api-key') || ''
GotKey(header) == IF Truthy(header) THEN header.s ELSE <<>>

\* a comparison that accepts every key
KeyMatchesAlways(got, apiKey) == TRUE

\* got !== API_KEY is false
KeyMatches(got, apiKey) == got = apiKey

\* requireApiKey: the status it answers, or "next" when it calls next()
requireApiKey(header, apiKey) ==
  IF apiKey = <<>> THEN "500"
  ELSE IF ~KeyMatches(GotKey(header), apiKey) THEN "401"
  ELSE "next"

\* the name check without its trim()
NameMissingNoTrim(name) == ~Truthy(name)

\* !name || !String(name).trim()
NameMissing(name) == ~Truthy(name) \/ trim(String(name)) = <<>>

\* String(name).toLowerCase().trim().replace(/[^a-z0-9]+/g, '-')
KeyOf(name) == ReplaceRuns(trim(toLowerCase(String(name))))

\* a merge loop without its `else if`: a course the body omits is not carried
MergedCourseNoCarry(body, existing, c) ==
  IF NotNullish(Get(body, c)) /\ isFinite(Number(Get(body, c)))
  THEN IF isFinite(Number(Get(existing, c)))
       THEN MathMin(Number(Get(existing, c)), Number(Get(body, c)))
       ELSE Number(Get(body, c))
  ELSE Undefined

\* a merge loop without the Number.isFinite test of the supplied value
MergedCourseUnchecked(body, existing, c) ==
  IF NotNullish(Get(body, c))
  THEN LET nv == Number(Get(body, c))
           ov == Number(Get(existing, c))
       IN  IF isFinite(ov) /\ isFinite(nv) THEN MathMin(ov, nv) ELSE nv
  ELSE IF NotNullish(Get(existing, c)) THEN Get(existing, c)
  ELSE Undefined

\* a merge loop that adds the supplied time to the stored one
MergedCourseAdded(body, existing, c) ==
  IF NotNullish(Get(body, c))
  THEN LET nv == Number(Get(body, c))
       IN  IF isFinite(nv)
           THEN LET ov == Number(Get(existing, c))
                IN  IF isFinite(ov) THEN Num(ov.n + nv.n) ELSE nv
           ELSE Undefined
  ELSE IF NotNullish(Get(existing, c)) THEN Get(existing, c)
  ELSE Undefined

\* one iteration of the merge loop: the value assigned to next[c], or
\* Undefined when the iteration assigns nothing
MergedCourse(body, existing, c) ==
  IF NotNullish(Get(body, c))
  THEN LET nv == Number(Get(body, c))
       IN  IF isFinite(nv)
           THEN LET ov == Number(Get(existing, c))
                IN  IF isFinite(ov) THEN MathMin(ov, nv) ELSE nv
           ELSE Undefined
  ELSE IF NotNullish(Get(existing, c)) THEN Get(existing, c)
  ELSE Undefined

\* a `next` that starts from the prior record: name, device and updatedAt are
\* set only when the record has none
NextRecordMerged(body, existing, now) ==
  LET set == {c \in Courses : MergedCourse(body, existing, c) # Undefined}
  IN  [f \in DOMAIN existing \ Courses |-> existing[f]]
      @@ [name |-> Str(slice(trim(String(Get(body, "name"))), NameCap)),
          device |-> IF Get(body, "device") = Mobile THEN Mobile ELSE Desktop,
          updatedAt |-> Num(now)]
      @@ [c \in set |-> MergedCourse(body, existing, c)]

\* the object `next` after the merge loop
NextRecord(body, existing, now) ==
  LET set == {c \in Courses : MergedCourse(body, existing, c) # Undefined}
  IN  [name |-> Str(slice(trim(String(Get(body, "name"))), NameCap)),
       device |-> IF Get(body, "device") = Mobile THEN Mobile ELSE Desktop,
       updatedAt |-> Num(now)]
      @@ [c \in set |-> MergedCourse(body, existing, c)]

\* snap.exists() ? snap.val() : {}
SnapVal(data, k) == IF k \in DOMAIN data THEN data[k] ELSE EmptyObject

\* ref.update(value): the properties of `value` are patched into the record
RefUpdate(data, k, value) ==
  [x \in DOMAIN data \cup {k} |->
     IF x = k THEN value @@ (IF k \in DOMAIN data THEN data[k] ELSE value) ELSE data[x]]

\* a set() on the parent location: the value becomes the only record
RefSetParent(data, k, value) == k :> value

\* a set() that also stamps the other records with the writer's updatedAt
RefSetStamping(data, k, value) ==
  [x \in DOMAIN data \cup {k} |->
     IF x = k THEN value ELSE [data[x] EXCEPT !.updatedAt = value.updatedAt]]

\* ref.set(value): the value at the location is replaced as a whole
RefSet(data, k, value) ==
  [x \in DOMAIN data \cup {k} |-> IF x = k THEN value ELSE data[x]]

(***************************************************************************)
(* GET /scores: the pure parts of the handler.                             *)
(***************************************************************************)
\* req.query.course || 'c1'  (the empty string stands for a missing parameter)
QueryCourse(course) == IF course = "" THEN "c1" ELSE course

\* req.query.dir === 'desc' ? -1 : 1
SortDir(dir) == IF dir = "desc" THEN -1 ELSE 1

\* a[course] || Infinity
TimeOrInfinity(a, course) ==
  IF Truthy(Get(a, course)) THEN Get(a, course) ELSE Infinity

\* x - y on numbers and Infinity
Minus(x, y) ==
  CASE x.t = "number" /\ y.t = "number" -> Num(x.n - y.n)
    [] x.t = "Infinity" /\ y.t = "number" -> Infinity
    [] x.t = "number" /\ y.t = "Infinity" -> NegInfinity
    [] OTHER -> NaN

\* d * v for d in {1, -1}
Times(d, v) ==
  CASE v.t = "number" -> Num(d * v.n)
    [] v.t = "Infinity" -> IF d = 1 THEN Infinity ELSE NegInfinity
    [] v.t = "-Infinity" -> IF d = 1 THEN NegInfinity ELSE Infinity
    [] OTHER -> NaN

\* the comparator handed to scores.sort
Comparator(a, b, course, sortDir) ==
  Times(sortDir, Minus(TimeOrInfinity(a, course), TimeOrInfinity(b, course)))

\* how Array.prototype.sort reads a comparator result: NaN counts as 0
SortSign(v) ==
  CASE v.t = "number" -> IF v.n < 0 THEN -1 ELSE IF v.n > 0 THEN 1 ELSE 0
    [] v.t = "Infinity" -> 1
    [] v.t = "-Infinity" -> -1
    [] OTHER -> 0

\* Array.prototype.sort is stable: x, met after the elements of `sorted`, goes
\* before the first of them that the comparator puts after it
RECURSIVE InsertSorted(_, _, _, _, _)
InsertSorted(x, sorted, data, course, sortDir) ==
  IF sorted = <<>> THEN <<x>>
  ELSE IF SortSign(Comparator(data[Head(sorted)], data[x], course, sortDir)) > 0
       THEN <<x>> \o sorted
       ELSE <<Head(sorted)>> \o InsertSorted(x, Tail(sorted), data, course, sortDir)

\* the keys of `order` (the order of Object.values) as scores.sort leaves
\* their records
RECURSIVE SortKeys(_, _, _, _)
SortKeys(order, data, course, sortDir) ==
  IF order = <<>> THEN <<>>
  ELSE InsertSorted(order[Len(order)],
                    SortKeys(SubSeq(order, 1, Len(order) - 1), data, course, sortDir),
                    data, course, sortDir)

\* the orders in which Object.values can enumerate the records of `data`
ValueOrders(data) ==
  {o \in [1..Cardinality(DOMAIN data) -> DOMAIN data] :
     \A i, j \in DOMAIN o : i # j => o[i] # o[j]}


(***************************************************************************)
(* Inputs of the requests.                                                 *)
(***************************************************************************)
\* the values of SCOREBOARD_API_KEY || '': not set, or a secret
ApiKeys == {<<>>, <<"k">>}

\* the x-api-key header: missing, the secret, another text
Headers == {Undefined, Str(<<"k">>), Str(<<"x">>)}

\* body.name: missing, empty, whitespace only, and names of the keys "al" and "al-"
NameInputs ==
  {Undefined, Str(<<>>), Str(<<" ">>), Str(<<"A","l">>), Str(<<"a","l"," ">>), Str(<<"a","l","!">>)}

\* body.device: missing, 'mobile', another text
DeviceInputs == {Undefined, Mobile, Str(<<"t","v">>)}

\* body.c1 .. body.c5, when the body has the property: null, a finite time,
\* a text that is no number
CourseInputs == {Null, Str(<<"x">>)} \cup {Num(n) : n \in 0..MaxTime}

\* the course fields a body may carry (the handler looks at all five)
SuppliedCourses == {"c1", "c2"}

Property(f, v) == IF v = Undefined THEN EmptyObject ELSE f :> v

\* the course properties of a body: at most MaxFields of them
CourseProperties ==
  UNION {[F -> CourseInputs] :
           F \in {G \in SUBSET SuppliedCourses : Cardinality(G) <= MaxFields}}

\* requests that carry the secret and a name, with every choice of course
\* properties
ScoreRequests ==
  {[kind |-> "submit", header |-> Str(<<"k">>),
    body |-> Property("name", n) @@ cs] :
     n \in {m \in NameInputs : ~(~Truthy(m) \/ trim(String(m)) = <<>>)},
     cs \in CourseProperties}

\* a name of NameCap + 1 characters whose character number NameCap is a space,
\* and the same name with a capital first letter and a space before it
LongName == [i \in 1..(NameCap + 1) |->
               IF i = NameCap THEN " " ELSE IF i = NameCap + 1 THEN "b" ELSE "a"]
LongNameUpper == <<" ">> \o [LongName EXCEPT ![1] = "A"]

\* requests with every header, name and device, and with no value, a time or
\* a text that is no number for c1
GateRequests ==
  {[kind |-> "submit", header |-> h,
    body |-> Property("name", n) @@ Property("device", d) @@ cs] :
     h \in Headers, n \in NameInputs \cup {Str(LongName), Str(LongNameUpper)},
     d \in DeviceInputs,
     cs \in {EmptyObject, "c1" :> Num(1), "c1" :> Str(<<"x">>)}}

\* the characters of the names of the key-derivation specification
KeyAlphabet == {"b", "B", " ", "!"}

BobSmithBang == <<"B","o","b"," ","S","m","i","t","h","!","!">>
BobSmithWide == <<"b","o","b"," "," "," ","s","m","i","t","h">>

\* requests that carry the secret and every name of at most MaxLen characters
\* of KeyAlphabet, and the two names of the documented example
KeyRequests ==
  {[kind |-> "submit", header |-> Str(<<"k">>), body |-> Property("name", Str(s))] :
     s \in UNION {[1..n -> KeyAlphabet] : n \in 0..MaxLen}
             \cup {BobSmithBang, BobSmithWide}}

\* requests with the secret or another text as header, with or without a
\* name, and with a time for c1
LiveRequests ==
  {[kind |-> "submit", header |-> h, body |-> Property("name", n) @@ ("c1" :> Num(c))] :
     h \in {Str(<<"k">>), Str(<<"x">>)}, n \in {Undefined, Str(<<"A","l">>)},
     c \in 1..MaxTime}

\* ?course= and ?dir= of GET /scores ("" when the parameter is missing)
ListRequests == [kind : {"list"}, course : {"", "c2"}, dir : {"", "asc", "desc"}]

Procs == 1..NumProcs

(***************************************************************************)
(* State.                                                                  *)
(***************************************************************************)
VARIABLES
  API_KEY,     \* const API_KEY
  store,       \* the records under /scores of the database, by key
  clock,       \* the last value Date.now() returned
  pc,          \* where each request slot's handler stands
  req,         \* the request a slot is handling
  key,         \* submit's const key
  existing,    \* submit's const existing
  next,        \* submit's const next
  resp,        \* the response sent
  nSubmits,    \* submit requests received so far
  nLists,      \* list requests received so far
  raced,       \* history: keys for which a submit started while another was in flight
  lastWriter,  \* history: the slot whose submit wrote each key last (0: slot reused)
  best,        \* history: per key and course, the least finite time of the submits answered 200
  since,       \* history: the same, counted anew after a submit with a non-finite value
  given        \* history: <<key, course, time>> for every finite time of a submit answered 200

vars == <<API_KEY, store, clock, pc, req, key, existing, next, resp,
          nSubmits, nLists, raced, lastWriter, best, since, given>>

\* the history variables that only a successful write changes
written == <<best, since, given>>

NoRequest == [kind |-> "none"]
NoResponse == [status |-> 0]

Init ==
  /\ API_KEY \in ApiKeys
  /\ store = EmptyObject
  /\ clock = 0
  /\ pc = [p \in Procs |-> "idle"]
  /\ req = [p \in Procs |-> NoRequest]
  /\ key = [p \in Procs |-> <<>>]
  /\ existing = [p \in Procs |-> EmptyObject]
  /\ next = [p \in Procs |-> EmptyObject]
  /\ resp = [p \in Procs |-> NoResponse]
  /\ nSubmits = 0
  /\ nLists = 0
  /\ raced = {}
  /\ lastWriter = EmptyObject
  /\ best = EmptyObject
  /\ since = EmptyObject
  /\ given = {}

Free(p) == pc[p] \in {"idle", "done"}

\* a slot that takes a new request no longer stands for the earlier one
Forget(p) == [k \in DOMAIN lastWriter |-> IF lastWriter[k] = p THEN 0 ELSE lastWriter[k]]

InFlight(k) == {q \in Procs : pc[q] \in {"get", "set"} /\ key[q] = k}

\* the finite time a body submits for course c, if any
SubmitsTime(body, c) == NotNullish(Get(body, c)) /\ isFinite(Number(Get(body, c)))

\* the history h after a submit of `body` for key k was answered 200: the least
\* finite time per course; with `anew`, a non-finite value forgets the course
Record(h, k, body, anew) ==
  LET old == SnapVal(h, k)
      keep == {c \in DOMAIN old : ~(anew /\ NotNullish(Get(body, c)) /\ ~SubmitsTime(body, c))}
      mine == {c \in Courses : SubmitsTime(body, c)}
      entry == [c \in keep \cup mine |->
                  IF c \notin mine THEN old[c]
                  ELSE IF c \in keep /\ old[c].n <= Number(body[c]).n THEN old[c]
                  ELSE Number(body[c])]
  IN  [x \in DOMAIN h \cup {k} |-> IF x = k THEN entry ELSE h[x]]

\* a request reaches the server; the event loop runs the synchronous part of
\* one request at a time, so no other request is waiting for its handler
Arrive(p, r, at) ==
  /\ Free(p)
  /\ \A q \in Procs : pc[q] # "recv"
  /\ req' = [req EXCEPT ![p] = r]
  /\ pc' = [pc EXCEPT ![p] = at]
  /\ resp' = [resp EXCEPT ![p] = NoResponse]
  /\ key' = [key EXCEPT ![p] = <<>>]
  /\ lastWriter' = Forget(p)
  /\ UNCHANGED <<API_KEY, store, clock, existing, next, raced, written>>

\* res.json(...) / res.status(...).json(...): the handler is over
Respond(p, response) ==
  /\ resp' = [resp EXCEPT ![p] = response]
  /\ pc' = [pc EXCEPT ![p] = "done"]
  /\ req' = [req EXCEPT ![p] = NoRequest]
  /\ existing' = [existing EXCEPT ![p] = EmptyObject]
  /\ next' = [next EXCEPT ![p] = EmptyObject]

(***************************************************************************)
(* POST /scores/submit                                                     *)
(***************************************************************************)
SubmitArrive(p, requests) ==
  /\ nSubmits < MaxSubmits
  /\ \E r \in requests : Arrive(p, r, "recv")
  /\ nSubmits' = nSubmits + 1
  /\ UNCHANGED nLists

\* requireApiKey and the handler up to `await ref.get()`
SubmitReceive(p) ==
  /\ pc[p] = "recv"
  /\ LET auth == requireApiKey(req[p].header, API_KEY)
         name == Get(req[p].body, "name")
     IN  IF auth = "500"
         THEN /\ Respond(p, [status |-> 500, error |-> "Server not configured"])
              /\ UNCHANGED <<key, raced>>
         ELSE IF auth = "401"
         THEN /\ Respond(p, [status |-> 401, error |-> "Unauthorized"])
              /\ UNCHANGED <<key, raced>>
         ELSE IF NameMissing(name)
         THEN /\ Respond(p, [status |-> 400, error |-> "Missing name"])
              /\ UNCHANGED <<key, raced>>
         ELSE /\ key' = [key EXCEPT ![p] = KeyOf(name)]
              /\ pc' = [pc EXCEPT ![p] = "get"]
              /\ raced' = IF InFlight(KeyOf(name)) # {}
                          THEN raced \cup {KeyOf(name)} ELSE raced
              /\ UNCHANGED <<req, resp, existing, next>>
  /\ UNCHANGED <<API_KEY, store, clock, nSubmits, nLists, lastWriter, written>>

\* ref.get() resolves: existing, next and the merge loop, up to `await ref.set(next)`
SubmitGot(p) ==
  /\ pc[p] = "get"
  /\ \E now \in clock..MaxClock :
       /\ clock' = now
       /\ existing' = [existing EXCEPT ![p] = SnapVal(store, key[p])]
       /\ next' = [next EXCEPT ![p] = NextRecord(req[p].body, SnapVal(store, key[p]), now)]
  /\ pc' = [pc EXCEPT ![p] = "set"]
  /\ UNCHANGED <<API_KEY, store, req, key, resp, nSubmits, nLists, raced, lastWriter,
                 written>>

\* ref.get() rejects: the catch block answers 500
SubmitGetFailed(p) ==
  /\ pc[p] = "get"
  /\ Respond(p, [status |-> 500, error |-> "Failed to submit"])
  /\ UNCHANGED <<API_KEY, store, clock, key, nSubmits, nLists, raced, lastWriter,
                 written>>

\* ref.set(next) resolves: the record is replaced and `saved` returned
SubmitSet(p) ==
  /\ pc[p] = "set"
  /\ store' = RefSet(store, key[p], next[p])
  /\ Respond(p, [status |-> 200, saved |-> next[p]])
  /\ lastWriter' = [k \in DOMAIN lastWriter \cup {key[p]} |->
                      IF k = key[p] THEN p ELSE lastWriter[k]]
  /\ best' = Record(best, key[p], req[p].body, FALSE)
  /\ since' = Record(since, key[p], req[p].body, TRUE)
  /\ given' = given \cup {<<key[p], c, Number(req[p].body[c])>> :
                            c \in {x \in Courses : SubmitsTime(req[p].body, x)}}
  /\ UNCHANGED <<API_KEY, clock, key, nSubmits, nLists, raced>>

\* a handler that answers 200 with `saved` although ref.set(next) rejected
SubmitSetSwallowed(p) ==
  /\ pc[p] = "set"
  /\ Respond(p, [status |-> 200, saved |-> next[p]])
  /\ UNCHANGED <<API_KEY, store, clock, key, nSubmits, nLists, raced, lastWriter,
                 written>>

\* ref.set(next) rejects: the catch block answers 500
SubmitSetFailed(p) ==
  /\ pc[p] = "set"
  /\ Respond(p, [status |-> 500, error |-> "Failed to submit"])
  /\ UNCHANGED <<API_KEY, store, clock, key, nSubmits, nLists, raced, lastWriter,
                 written>>

(***************************************************************************)
(* GET /scores                                                             *)
(***************************************************************************)
\* the handler up to `await db.ref('/scores').get()`
ListReceive(p) ==
  /\ nLists < MaxLists
  /\ \E r \in ListRequests : Arrive(p, r, "list")
  /\ nLists' = nLists + 1
  /\ UNCHANGED nSubmits

\* a list that leaves out the records without the course
ListResponseFiltered(data, order, r) ==
  LET sorted == SortKeys(order, data, QueryCourse(r.course), SortDir(r.dir))
      having == SelectSeq(sorted, LAMBDA k : QueryCourse(r.course) \in DOMAIN data[k])
  IN  [status |-> 200,
       scores |-> [i \in DOMAIN having |-> data[having[i]]],
       from |-> having]

\* the records of Object.values(data), sorted, with the key of each (`from`)
ListResponse(data, order, r) ==
  LET sorted == SortKeys(order, data, QueryCourse(r.course), SortDir(r.dir))
  IN  [status |-> 200,
       scores |-> [i \in DOMAIN sorted |-> data[sorted[i]]],
       from |-> sorted]

\* a list that removes from the store the records without the course
ListGotPruning(p) ==
  /\ pc[p] = "list"
  /\ \E order \in ValueOrders(store) : Respond(p, ListResponse(store, order, req[p]))
  /\ store' = [k \in {x \in DOMAIN store : QueryCourse(req[p].course) \in DOMAIN store[x]}
                 |-> store[k]]
  /\ UNCHANGED <<API_KEY, clock, key, nSubmits, nLists, raced, lastWriter, written>>

\* get() resolves: Object.values, the sort and the response
ListGot(p) ==
  /\ pc[p] = "list"
  /\ \E order \in ValueOrders(store) : Respond(p, ListResponse(store, order, req[p]))
  /\ UNCHANGED <<API_KEY, store, clock, key, nSubmits, nLists, raced, lastWriter,
                 written>>

\* get() rejects: the catch block answers 500
ListGetFailed(p) ==
  /\ pc[p] = "list"
  /\ Respond(p, [status |-> 500, error |-> "Failed to load scores"])
  /\ UNCHANGED <<API_KEY, store, clock, key, nSubmits, nLists, raced, lastWriter,
                 written>>

Step(requests) ==
  \E p \in Procs :
    \/ SubmitArrive(p, requests)
    \/ SubmitReceive(p)
    \/ SubmitGot(p)
    \/ SubmitGetFailed(p)
    \/ SubmitSet(p)
    \/ SubmitSetFailed(p)
    \/ ListReceive(p)
    \/ ListGot(p)
    \/ ListGetFailed(p)

\* the server under requests that reach the store
Next == Step(ScoreRequests)
Spec == Init /\ [][Next]_vars

\* the server under requests that exercise the API key and name checks
NextGate == Step(GateRequests)
SpecGate == Init /\ [][NextGate]_vars

\* the server under requests that differ in their names only
NextKey == Step(KeyRequests)
SpecKey == Init /\ [][NextKey]_vars

\* the server when every handler that can run does run and the store settles
\* every get() and set(): the promise resolves or rejects
NextLive == Step(LiveRequests)
Settles ==
  \A p \in Procs :
    /\ WF_vars(SubmitReceive(p))
    /\ WF_vars(SubmitGot(p) \/ SubmitGetFailed(p))
    /\ WF_vars(SubmitSet(p) \/ SubmitSetFailed(p))
    /\ WF_vars(ListGot(p) \/ ListGetFailed(p))
SpecLive == Init /\ [][NextLive]_vars /\ Settles

(***************************************************************************)
(* Properties.                                                             *)
(***************************************************************************)
\* the step in which slot p's submit writes its record and is answered 200
Wrote(p) == pc[p] = "set" /\ pc'[p] = "done" /\ resp'[p].status = 200

\* slot p's submit was answered 200 with `saved`
Saved(p) == pc[p] = "done" /\ resp[p].status = 200 /\ "saved" \in DOMAIN resp[p]

\* the step in which slot p's submit handler runs up to its first await
Handled(p) == pc[p] = "recv" /\ pc'[p] # "recv"

\* C1: for every key and course, while the submits for the key do not overlap,
\* a stored course field stays present and never increases.
C1_StoredTimeNeverIncreases ==
  [][\A k \in DOMAIN store : \A c \in Courses :
       (k \notin raced' /\ c \in DOMAIN store[k])
         => (c \in DOMAIN store'[k] /\ store'[k][c].n <= store[k][c].n)]_vars

\* C2 as stated: whatever the interleaving, a stored course field equals the
\* least finite time the submits answered 200 supplied for that key and course.
C2_StoredIsMinimumEver ==
  \A k \in DOMAIN store : \A c \in DOMAIN store[k] \cap Courses :
    c \in DOMAIN best[k] /\ store[k][c] = best[k][c]

\* C2 amended: for a key whose submits never overlapped, a course field is
\* stored exactly when a submit answered 200 supplied a finite time for it and
\* none after that supplied a non-finite value, and it then equals the least
\* finite time supplied since the last non-finite value.
C2_StoredIsMinimumSince ==
  \A k \in DOMAIN store :
    k \notin raced =>
      /\ DOMAIN store[k] \cap Courses = DOMAIN since[k]
      /\ \A c \in DOMAIN since[k] : store[k][c] = since[k][c]

\* C2 witness: two submits in turn for one key, the second with a greater
\* time, and the lesser one is still stored.
C2_Witness ==
  \E k \in DOMAIN store : \E c \in DOMAIN store[k] \cap Courses : \E p \in Procs :
    /\ k \notin raced /\ nSubmits = 2
    /\ Saved(p) /\ key[p] = k /\ lastWriter[k] = p
    /\ resp[p].saved.updatedAt = Num(1)
    /\ \E q \in Procs \ {p} : /\ Saved(q) /\ key[q] = k
                              /\ resp[q].saved.updatedAt = Num(0)
                              /\ Get(resp[q].saved, c) = Num(0)
    /\ store[k][c] = Num(0) /\ since[k][c] = Num(0)

\* C3: a successful write replaces the whole record by what the writer computed
\* from its own read: no course field of the record it overwrites survives
\* unless the writer had read it or supplied it.
C3_SecondWriteReplaces ==
  [][\A p \in Procs :
       Wrote(p) =>
         /\ store'[key[p]] = resp'[p].saved
         /\ DOMAIN store'[key[p]] \cap Courses
              \subseteq DOMAIN existing[p] \cup {c \in Courses : SubmitsTime(req[p].body, c)}
         /\ \A c \in Courses :
              (SubmitsTime(req[p].body, c) /\ c \notin DOMAIN existing[p])
                => store'[key[p]][c] = Number(req[p].body[c])]_vars

\* C3 witness: both submits for one key read before either wrote, both were
\* answered 200, and the record stored by the second writer holds for some
\* course a greater time than the one the first writer saved.
C3_Witness ==
  \E p \in Procs, q \in Procs : \E c \in Courses :
    /\ p # q /\ key[p] = key[q] /\ key[p] \in raced
    /\ Saved(p) /\ Saved(q)
    /\ lastWriter[key[p]] = q
    /\ c \in DOMAIN resp[p].saved /\ c \in DOMAIN store[key[p]]
    /\ store[key[p]][c].n > resp[p].saved[c].n
    /\ store[key[p]][c].n > best[key[p]][c].n

\* C4: a submit that supplies a value that is no finite number for a course
\* the record has leaves that course in the written record, unchanged.
C4_NonFinitePriorWins ==
  [][\A p \in Procs : \A c \in Courses :
       (/\ Wrote(p)
        /\ NotNullish(Get(req[p].body, c))
        /\ ~isFinite(Number(Get(req[p].body, c)))
        /\ c \in DOMAIN existing[p])
         => Get(store'[key[p]], c) = existing[p][c]]_vars

\* C5: a submit that does not overlap another for its key writes, per course:
\* the lesser of the supplied finite time and the stored one; the supplied
\* time when none is stored; the stored one when the body has no value (absent
\* or null); no field when neither has a value.
C5_MergePerCourse ==
  [][\A p \in Procs : \A c \in Courses :
       (Wrote(p) /\ key[p] \notin raced) =>
         LET b == Get(req[p].body, c)
             prior == Get(SnapVal(store, key[p]), c)
             after == Get(store'[key[p]], c)
         IN  /\ (b.t = "number" /\ prior # Undefined)
                  => after = Num(IF b.n <= prior.n THEN b.n ELSE prior.n)
             /\ (b.t = "number" /\ prior = Undefined) => after = b
             /\ (b.t \in {"undefined", "null"}) => after = prior]_vars

\* C5 witness: "Al" submitted c1, then "al " submitted without c1 (it supplied
\* c2): the one record under "al" carries the name "al", c1 as before and c2.
C5_Witness ==
  \E p \in Procs, q \in Procs :
    /\ p # q /\ <<"a","l">> \notin raced
    /\ Saved(q)
    /\ resp[q].saved.name = Str(<<"A","l">>)
    /\ DOMAIN resp[q].saved \cap Courses = {"c1"} /\ resp[q].saved.c1 = Num(1)
    /\ Saved(p)
    /\ resp[p].saved.name = Str(<<"a","l">>)
    /\ DOMAIN resp[p].saved \cap Courses = {"c1", "c2"}
    /\ DOMAIN store = {<<"a","l">>}
    /\ store[<<"a","l">>] = resp[p].saved
    /\ store[<<"a","l">>].c1 = Num(1)

\* the words of a name: its maximal runs of letters and digits, in lower case
RECURSIVE Words(_)
Words(s) ==
  IF s = <<>> THEN <<>>
  ELSE IF ~IsKeyChar(LowerChar(Head(s))) THEN Words(Tail(s))
  ELSE LET n == CHOOSE i \in 1..Len(s) :
                  /\ \A j \in 1..i : IsKeyChar(LowerChar(s[j]))
                  /\ (i = Len(s) \/ ~IsKeyChar(LowerChar(s[i + 1])))
       IN  <<toLowerCase(SubSeq(s, 1, n))>> \o Words(SubSeq(s, n + 1, Len(s)))

\* what two names share when they differ only in letter case, surrounding
\* whitespace and the length or content of their runs of other characters,
\* trailing runs included: their words, and whether a run precedes the first
Outline(s) ==
  [words |-> Words(s),
   led |-> trim(s) # <<>> /\ ~IsKeyChar(LowerChar(Head(trim(s))))]

\* submits in flight past the name check
Keyed(p) == pc[p] \in {"get", "set"}

\* C6: two names that differ only in letter case, surrounding whitespace and
\* the length or content of runs of non-alphanumeric characters (trailing runs
\* included) get the same key; "Bob Smith!!" and "bob   smith" get "bob-smith".
C6_KeyCollapses ==
  \A p \in Procs, q \in Procs :
    (Keyed(p) /\ Keyed(q)) =>
      /\ Outline(req[p].body.name.s) = Outline(req[q].body.name.s) => key[p] = key[q]
      /\ req[p].body.name.s \in {BobSmithBang, BobSmithWide}
           => key[p] = <<"b","o","b","-","s","m","i","t","h">>

\* C7: with a secret configured, a submit whose x-api-key header is missing or
\* differs from the secret is answered 401 by the step that handles it,
\* whatever its body and whatever else is in flight; the handler ends there, so
\* it neither reads nor writes the store, which that step leaves as it was.
C7_BadKeyUnauthorized ==
  [][\A p \in Procs :
       (/\ Handled(p)
        /\ API_KEY # <<>>
        /\ (req[p].header = Undefined \/ req[p].header.s # API_KEY))
         => /\ pc'[p] = "done"
            /\ resp'[p].status = 401
            /\ store' = store]_vars

\* C7 witness: a submit was answered 401 while the store held a record.
C7_Witness ==
  \E p \in Procs : pc[p] = "done" /\ resp[p].status = 401 /\ store # EmptyObject

\* C8: a submit with the right key whose name is missing, empty or only
\* whitespace is answered 400 by the step that handles it; the handler ends
\* there (no read, no write) and the store is as it was.
C8_MissingNameRejected ==
  [][\A p \in Procs :
       (/\ Handled(p)
        /\ API_KEY # <<>>
        /\ req[p].header = Str(API_KEY)
        /\ LET n == Get(req[p].body, "name")
           IN  n = Undefined \/ (n.t = "string" /\ \A i \in DOMAIN n.s : IsSpace(n.s[i])))
         => /\ pc'[p] = "done"
            /\ resp'[p].status = 400
            /\ store' = store]_vars

\* C8 witness: a submit was answered 400 while the store held a record.
C8_Witness ==
  \E p \in Procs : pc[p] = "done" /\ resp[p].status = 400 /\ store # EmptyObject

\* the step in which slot p's list is answered 200
Listed(p) == pc[p] = "list" /\ resp'[p].status = 200

\* C9: a list answered 200 holds every stored record once, ordered by the
\* time of the named course (c1 when none is named), ascending unless dir is
\* 'desc'; a record without the field counts as +infinity and every record
\* with the field counts by its number, 0 included.
C9_ListOrderedByTime ==
  [][\A p \in Procs :
       Listed(p) =>
         LET course == IF req[p].course = "" THEN "c1" ELSE req[p].course
             s == resp'[p].scores
             from == resp'[p].from
             Has(x) == course \in DOMAIN x
             \* x's time is at most y's, a missing time being +infinity
             AtMost(x, y) == Has(y) => (Has(x) /\ x[course].n <= y[course].n)
         IN  /\ Len(s) = Cardinality(DOMAIN store)
             /\ {from[i] : i \in DOMAIN from} = DOMAIN store
             /\ \A i \in DOMAIN s : s[i] = store[from[i]]
             /\ \A i \in DOMAIN s : \A j \in DOMAIN s :
                  i < j => IF req[p].dir = "desc" THEN AtMost(s[j], s[i])
                           ELSE AtMost(s[i], s[j])]_vars

\* C10: when a list is answered 200, every submit answered 200 that is still
\* the last writer of its key finds exactly one record of that key in the
\* list, equal to its `saved` in every field.
C10_ListShowsSaved ==
  [][\A p \in Procs : \A q \in Procs :
       (Listed(p) /\ Saved(q) /\ key[q] \in DOMAIN lastWriter /\ lastWriter[key[q]] = q)
         => LET s == resp'[p].scores
                from == resp'[p].from
            IN  /\ Cardinality({i \in DOMAIN from : from[i] = key[q]}) = 1
                /\ \A i \in DOMAIN from : from[i] = key[q] => s[i] = resp[q].saved
                /\ \E i \in DOMAIN s : s[i] = resp[q].saved]_vars

\* C10 witness: a submit was answered 200 with a record that has no c1, a list
\* by c1 followed and shows that record, another record before it.
C10_Witness ==
  \E p \in Procs, q \in Procs :
    /\ pc[p] = "done" /\ resp[p].status = 200 /\ "scores" \in DOMAIN resp[p]
    /\ Saved(q) /\ lastWriter[key[q]] = q
    /\ "c1" \notin DOMAIN resp[q].saved /\ "c2" \in DOMAIN resp[q].saved
    /\ Len(resp[p].scores) = 2
    /\ resp[p].scores[2] = resp[q].saved
    /\ resp[p].scores[1] # resp[q].saved
    /\ store[key[q]] = resp[q].saved

\* the step in which slot p's submit gets the answer of ref.get()
Read(p) == pc[p] = "get" /\ pc'[p] = "set"

\* C11: a submit answered 200 leaves under its key a record whose name is the
\* submitted name trimmed and cut to at most 40 characters, whose device is
\* 'mobile' if the submitted device is exactly 'mobile' and 'desktop' otherwise,
\* and whose updatedAt is the time Date.now() returned to this submit, whatever
\* the prior record holds and whether or not the body carries a course time.
C11_OverwritesNameDeviceTime ==
  [][\A p \in Procs :
       /\ Read(p) => next'[p].updatedAt = Num(clock')
       /\ Wrote(p) =>
            LET n == trim(String(req[p].body.name))
                d == Get(req[p].body, "device")
                after == store'[key[p]]
            IN  /\ after.name = Str(IF Len(n) <= 40 THEN n ELSE SubSeq(n, 1, 40))
                /\ after.device = IF d = Str(<<"m","o","b","i","l","e">>)
                                  THEN Str(<<"m","o","b","i","l","e">>)
                                  ELSE Str(<<"d","e","s","k","t","o","p">>)
                /\ after.updatedAt = next[p].updatedAt
                /\ after.updatedAt.n <= clock]_vars

\* C11 witness: the long name with the space and the capital was saved from a mobile at time
\* 0; the other long name, from a device 'tv' and without a course time, then
\* replaced name (cut to 40 characters), device and updatedAt of that record.
C11_Witness ==
  \E p \in Procs, q \in Procs :
    /\ p # q /\ Saved(p) /\ Saved(q) /\ key[p] = key[q]
    /\ resp[q].saved.name = Str(SubSeq(LongNameUpper, 2, 41))
    /\ resp[q].saved.device = Mobile
    /\ resp[q].saved.updatedAt = Num(0)
    /\ "c1" \in DOMAIN resp[q].saved
    /\ lastWriter[key[p]] = p
    /\ store[key[p]] = [name |-> Str(SubSeq(LongName, 1, 40)), device |-> Desktop,
                        updatedAt |-> Num(1), c1 |-> Num(1)]

\* a step of slot p's list: the request arrives, or its get() resolves or rejects
ListStep(p) == pc[p] # pc'[p] /\ (pc'[p] = "list" \/ pc[p] = "list")

\* C12: every step of a list request, whatever submits are in flight, leaves
\* the store as it was; a list whose read of the store fails is answered 500
\* with an error text only, no scores.
C12_ListNoSideEffects ==
  [][\A p \in Procs :
       ListStep(p) =>
         /\ store' = store
         /\ (pc[p] = "list" /\ pc'[p] = "done")
              => \/ resp'[p].status = 200
                 \/ /\ resp'[p].status = 500
                    /\ DOMAIN resp'[p] = {"status", "error"}]_vars

\* C12 witness: a list was answered 500 while the store held a record and a
\* submit stood between its read and its write.
C12_Witness ==
  \E p \in Procs, q \in Procs :
    /\ pc[p] = "done" /\ resp[p] = [status |-> 500, error |-> "Failed to load scores"]
    /\ pc[q] = "set"
    /\ store # EmptyObject

\* C13: no step removes a stored key; the store changes only in the step in
\* which one submit is answered 200, and that step replaces the record at one
\* location, the key derived from that submit's own name, by the submit's
\* whole `next`, and ends the handler.
C13_NoDeletionOneWrite ==
  [][/\ DOMAIN store \subseteq DOMAIN store'
     /\ store' # store =>
          \E p \in Procs :
            /\ Wrote(p)
            /\ \A q \in Procs \ {p} : ~Wrote(q)
     /\ \A p \in Procs :
          Wrote(p) =>
            LET k == ReplaceRuns(trim(toLowerCase(req[p].body.name.s)))
            IN  /\ k = key[p]
                /\ DOMAIN store' = DOMAIN store \cup {k}
                /\ store'[k] = next[p]
                /\ resp'[p].saved = next[p]
                /\ \A x \in DOMAIN store \ {k} : store'[x] = store[x]
                /\ pc'[p] = "done"]_vars

\* C13 witness: two submits were answered 200, for two keys; the record of
\* the first is stored as saved beside the record of the second.
C13_Witness ==
  \E p \in Procs, q \in Procs :
    /\ Saved(p) /\ Saved(q) /\ key[p] # key[q]
    /\ resp[p].saved.updatedAt = Num(0) /\ resp[q].saved.updatedAt = Num(1)
    /\ DOMAIN store = {key[p], key[q]}
    /\ store[key[p]] = resp[p].saved /\ store[key[q]] = resp[q].saved

\* slot p's handler stands in a submit request
InSubmit(p) == pc[p] \in {"recv", "get", "set"}

\* the safety part of C14: a submit's handler only moves forward (checks, then the read,
\* then the write: no operation on the store is repeated) and answers once, in
\* the step that ends it.  A failed read is answered 500 and leaves the store
\* as it was, and no write follows; a failed write is answered 500; 200 with
\* `saved` is answered only by the step in which the write completes; with no
\* API secret every submit is answered 500 by its first step and the store is
\* never written.
AnswersOnceNoRetry ==
  [][\A p \in Procs :
       /\ (InSubmit(p) /\ pc'[p] # pc[p]) =>
            /\ pc[p] = "recv" => pc'[p] \in {"get", "done"}
            /\ pc[p] = "get" => pc'[p] \in {"set", "done"}
            /\ pc[p] = "set" => pc'[p] = "done"
            /\ (pc'[p] = "done") <=> (resp'[p] # NoResponse)
       /\ (InSubmit(p) /\ pc'[p] = pc[p]) => resp'[p] = resp[p]
       /\ (pc[p] = "done" /\ resp'[p] # resp[p])
            => (resp'[p] = NoResponse /\ pc'[p] \in {"recv", "list"})
       /\ (pc[p] = "get" /\ pc'[p] = "done")
            => (resp'[p].status = 500 /\ store' = store)
       /\ (pc[p] = "set" /\ pc'[p] = "done")
            => \/ resp'[p].status = 500 /\ "saved" \notin DOMAIN resp'[p]
               \/ /\ resp'[p].status = 200
                  /\ key[p] \in DOMAIN store'
                  /\ store'[key[p]] = resp'[p].saved
                  /\ resp'[p].saved = next[p]
       /\ (InSubmit(p) /\ pc'[p] = "done" /\ resp'[p].status = 200) => pc[p] = "set"
       /\ (API_KEY = <<>> /\ pc[p] = "recv" /\ pc'[p] # pc[p])
            => (pc'[p] = "done" /\ resp'[p].status = 500)
       /\ API_KEY = <<>> => (store = EmptyObject /\ store' = EmptyObject)]_vars

\* C14: while the store settles every operation, every submit received is
\* answered; it is answered once, by the step that ends its handler, and no
\* operation on the store is repeated: a failed read is answered 500 with the
\* store as it was and no write, a failed write is answered 500, 200 with
\* `saved` is answered only when the write has completed, and with no API
\* secret every submit is answered 500 and the store is never written.
C14_OneResponseNoRetry ==
  /\ AnswersOnceNoRetry
  /\ \A p \in Procs : InSubmit(p) ~> (pc[p] = "done")

\* C14 witness: with a secret configured, one submit was answered 200 and
\* another, for the same key, 500 by the catch block; the store holds what the
\* first saved.
C14_Witness ==
  \E p \in Procs, q \in Procs :
    /\ p # q /\ API_KEY # <<>>
    /\ Saved(p)
    /\ pc[q] = "done" /\ resp[q] = [status |-> 500, error |-> "Failed to submit"]
    /\ key[q] = key[p]
    /\ store = key[p] :> resp[p].saved

\* C15: the key of every name that submit accepts is its own key: lower case,
\* trim and the replacement of runs leave it as it is.
C15_KeyIdempotent ==
  \A p \in Procs : Keyed(p) => KeyOf(Str(key[p])) = key[p]

\* C15 witness: a submit of "Bob Smith!!" stands at its read with the key
\* "bob-smith-", hyphens inside and at the end.
C15_Witness ==
  \E p \in Procs :
    /\ pc[p] = "get"
    /\ req[p].body.name = Str(BobSmithBang)
    /\ key[p] = <<"b","o","b","-","s","m","i","t","h","-">>

\* a step of slot p's submit: the request arrives, or its handler moves on
SubmitStep(p) == pc[p] # pc'[p] /\ (pc'[p] = "recv" \/ InSubmit(p))

\* C16: every step of a submit, whatever else is in flight, leaves every
\* record stored under a key other than the key of the submit's name in the
\* store and as it was.
C16_OtherRecordsUntouched ==
  [][\A p \in Procs :
       SubmitStep(p) =>
         LET r == IF pc'[p] = "recv" THEN req'[p] ELSE req[p]
             k == KeyOf(r.body.name)
         IN  \A x \in DOMAIN store \ {k} :
               x \in DOMAIN store' /\ store'[x] = store[x]]_vars

\* C16 witness: a submit of c1 for the key "al-" was answered 200 at time 1
\* while a record with c2 alone, saved at time 0, was stored under "al";
\* that record is as it was saved and the new one has no c2.
C16_Witness ==
  \E p \in Procs, q \in Procs :
    /\ Saved(p) /\ key[p] = <<"a","l","-">> /\ lastWriter[key[p]] = p
    /\ Saved(q) /\ key[q] = <<"a","l">>
    /\ resp[q].saved.updatedAt = Num(0) /\ resp[p].saved.updatedAt = Num(1)
    /\ DOMAIN resp[q].saved \cap Courses = {"c2"}
    /\ store[<<"a","l">>] = resp[q].saved
    /\ DOMAIN store[<<"a","l","-">>] \cap Courses = {"c1"}

\* C17: whatever the interleaving, every course field stored under a key is a
\* finite time that a submit answered 200 for that key supplied for that
\* course; and the `saved` of a submit holds, for a course the submit supplied
\* a finite time for, no greater time than that.
C17_StoredWasSupplied ==
  [][/\ \A k \in DOMAIN store' : \A c \in DOMAIN store'[k] \cap Courses :
          <<k, c, store'[k][c]>> \in given'
     /\ \A p \in Procs : \A c \in Courses :
          (Wrote(p) /\ SubmitsTime(req[p].body, c) /\ c \in DOMAIN resp'[p].saved)
            => /\ resp'[p].saved[c].t = "number"
               /\ resp'[p].saved[c].n <= Number(req[p].body[c]).n]_vars

\* C17 witness: two submits for one key overlapped and supplied 1 and 2 for
\* c1; both were answered 200, one with 1 saved, and 2 is what is stored.
C17_Witness ==
  \E p \in Procs, q \in Procs :
    /\ p # q /\ key[p] = key[q] /\ key[p] \in raced
    /\ Saved(p) /\ Saved(q)
    /\ {<<key[p], "c1", Num(1)>>, <<key[p], "c1", Num(2)>>} \subseteq given
    /\ Get(resp[p].saved, "c1") = Num(1)
    /\ Get(store[key[p]], "c1") = Num(2)

\* C18: every stored record has a name that is a non-empty text of at most 40
\* characters whose first is no whitespace, the device 'mobile' or 'desktop',
\* an updatedAt, and for each of c1..c5 no field or a finite number.
C18_RecordsWellFormed ==
  \A k \in DOMAIN store :
    LET r == store[k]
    IN  /\ {"name", "device", "updatedAt"} \subseteq DOMAIN r
        /\ r.name.t = "string"
        /\ r.name.s # <<>> /\ Len(r.name.s) <= 40
        /\ r.name.s[1] \notin {" ", "\t", "\n"}
        /\ r.device \in {Str(<<"m","o","b","i","l","e">>), Str(<<"d","e","s","k","t","o","p">>)}
        /\ r.updatedAt.t = "number"
        /\ \A c \in {"c1", "c2", "c3", "c4", "c5"} : c \in DOMAIN r => r[c].t = "number"

\* C18 witness: the record of the long name that came with a leading space
\* is stored with 40 characters, the last a space, from a mobile, and without
\* c1 after a submit that supplied a text for c1 replaced the one that had it.
C18_Witness ==
  \E p \in Procs :
    /\ Saved(p) /\ lastWriter[key[p]] = p
    /\ store[key[p]] = [name |-> Str(SubSeq(LongNameUpper, 2, 41)), device |-> Mobile,
                        updatedAt |-> Num(1)]
    /\ store[key[p]].name.s[40] = " "
    /\ <<key[p], "c1", Num(1)>> \in given

====
